---- MODULE Spec2Model ----
(***************************************************************************)
(* A model of src/app.py: the product-link extractor                       *)
(* (detect_product_links / get_product_links) and the conversion run       *)
(* (process_collection, convert_url_to_pdf, merge_pdfs,                    *)
(* convert_pdf_to_docx).                                                   *)
(*                                                                         *)
(* Text is modelled as a sequence of tokens.  Every token stands for a     *)
(* fixed piece of text, no token is a prefix of another, and Alphabet      *)
(* lists the tokens in code-point order, so that comparing two token       *)
(* sequences token by token is comparing the two texts character by        *)
(* character.                                                              *)
(***************************************************************************)
EXTENDS Integers, Sequences, FiniteSets, TLC

\* ------------------------------------------------------------------ bounds
\* Longest listing page (number of <a href> elements) the extractor is fed.
MaxAnchors == 2
\* Largest number of product links on a listing page of a whole run.
MaxLinks == 4
\* Largest value of the max_products input of a run.
MaxCap == 3
\* Width of the ThreadPoolExecutor (max_workers=10 in the source), scaled down.
MaxWorkers == 2
\* Width of api_semaphore (Semaphore(20) in the source), scaled down; as in the
\* source it is wider than the executor.
SemaphoreWidth == 3

\* ------------------------------------------------------------------- text
Alphabet ==
    << "#", "/", "=", "?", "[", "a", "b", "c", "d", "e", "f", "http://", "list",
       "mailto:", "no", "other", "products", "shop", "x" >>

Code(t) == CHOOSE i \in 1..Len(Alphabet) : Alphabet[i] = t

\* s < t, as Python compares two str values.
LexLess(s, t) ==
    \/ /\ Len(s) < Len(t)
       /\ SubSeq(t, 1, Len(s)) = s
    \/ \E i \in 1..Len(s) :
          /\ i <= Len(t)
          /\ SubSeq(s, 1, i - 1) = SubSeq(t, 1, i - 1)
          /\ Code(s[i]) < Code(t[i])

\* p in s
Contains(s, p) ==
    \E i \in 0..(Len(s) - Len(p)) : SubSeq(s, i + 1, i + Len(p)) = p

\* index of the first token of s that is in D, Len(s) + 1 when there is none
FirstOf(s, D) ==
    IF \E i \in 1..Len(s) : s[i] \in D
    THEN CHOOSE i \in 1..Len(s) : s[i] \in D /\ \A j \in 1..(i - 1) : s[j] \notin D
    ELSE Len(s) + 1

\* index of the last token of s that is in D, 0 when there is none
LastOf(s, D) ==
    IF \E i \in 1..Len(s) : s[i] \in D
    THEN CHOOSE i \in 1..Len(s) : s[i] \in D /\ \A j \in (i + 1)..Len(s) : s[j] \notin D
    ELSE 0

\* sorted(..., reverse=True)
SortSetDescending(S) ==
    [ i \in 1..Cardinality(S) |->
        CHOOSE x \in S : Cardinality({ y \in S : LexLess(x, y) }) = i - 1 ]

\* the elements of the set S of texts in ascending order
SortSet(S) ==
    [ i \in 1..Cardinality(S) |->
        CHOOSE x \in S : Cardinality({ y \in S : LexLess(y, x) }) = i - 1 ]

\* sorted(list(S))
sorted(set) == CHOOSE r \in { SortSet(S) : S \in { set } } : TRUE

\* -------------------------------------------------------------- urllib.parse
Schemes == { "http://", "mailto:" }

\* urlsplit of a text that starts with the scheme token first (or with none),
\* whose netloc ends before position n, whose first '?' or '#' is at q and
\* whose first '#' is at f
SplitAt(s, first, n, q, f) ==
    [ scheme   |-> first,
      netloc   |-> SubSeq(s, IF first = "" THEN 1 ELSE 2, n - 1),
      path     |-> SubSeq(s, n, q - 1),
      query    |-> SubSeq(s, q + 1, f - 1),
      fragment |-> SubSeq(s, f + 1, Len(s)) ]

urlsplit(s) ==
    LET first == IF Len(s) > 0 /\ s[1] \in Schemes THEN s[1] ELSE ""
    IN  CHOOSE r \in
            { SplitAt(s, first, n, q, f) :
                n \in { IF first = "http://" THEN FirstOf(s, { "/", "?", "#" })
                        ELSE IF first = "" THEN 1 ELSE 2 },
                q \in { FirstOf(s, { "?", "#" }) },
                f \in { FirstOf(s, { "#" }) } } : TRUE

urlparse(text) == CHOOSE r \in { urlsplit(s) : s \in { text } } : TRUE

urlunparse(p) ==
    (IF p.scheme = "" THEN << >> ELSE << p.scheme >>)
    \o p.netloc
    \o p.path
    \o (IF p.query = << >> THEN << >> ELSE << "?" >> \o p.query)
    \o (IF p.fragment = << >> THEN << >> ELSE << "#" >> \o p.fragment)

\* urljoin of a base parsed as b with a reference parsed as h
JoinParsed(base, b, href, h) ==
    LET scheme == IF h.scheme = "" THEN b.scheme ELSE h.scheme
        dir    == SubSeq(b.path, 1, LastOf(b.path, { "/" }))
    IN  IF href = << >> THEN base
        ELSE IF scheme # b.scheme \/ scheme # "http://" THEN href
        ELSE IF h.netloc # << >> THEN urlunparse(h)
        ELSE IF h.path = << >>
             THEN urlunparse([ scheme |-> scheme, netloc |-> b.netloc,
                               path |-> b.path,
                               query |-> IF h.query = << >> THEN b.query ELSE h.query,
                               fragment |-> h.fragment ])
        ELSE urlunparse([ scheme |-> scheme, netloc |-> b.netloc,
                          path |-> IF h.path[1] = "/" THEN h.path
                                   ELSE (IF dir = << >> THEN << "/" >> ELSE dir) \o h.path,
                          query |-> h.query, fragment |-> h.fragment ])

\* urljoin(base, href) for an absolute http base
urljoin(base, href) ==
    CHOOSE r \in
        { JoinParsed(bs, b, hs, h) :
            bs \in { base }, b \in { urlparse(base) },
            hs \in { href }, h \in { urlparse(href) } } : TRUE

\* the keys of parse_qs(query): "k=v" pairs with a non-blank value
parse_qs(query) ==
    IF Len(query) >= 3 /\ query[2] = "=" THEN { query[1] } ELSE {}

\* ---------------------------------------------------------- the listing page
\* An <a href=...> element of the parsed page: its href, whether it holds an
\* <img>, whether its markup apart from the href mentions 'product' or 'item',
\* and whether it is nested in a div/li/article whose class mentions
\* product/item/goods.
Anchor(href, img, vocab, container) ==
    [ href |-> href, img |-> img, vocab |-> vocab, container |-> container ]

Anchors ==
    { Anchor(<< "/", "products", "/", "a" >>, FALSE, FALSE, FALSE),
      Anchor(<< "/", "products", "/", "a", "#", "f" >>, FALSE, FALSE, FALSE),
      Anchor(<< "http://", "other", "/", "products", "/", "a" >>, TRUE, TRUE, TRUE),
      Anchor(<< "mailto:", "a", "?", "no", "=", "b" >>, FALSE, FALSE, FALSE),
      Anchor(<< "mailto:", "a" >>, TRUE, TRUE, TRUE),
      Anchor(<< >>, TRUE, TRUE, FALSE),
      Anchor(<< >>, FALSE, FALSE, TRUE),
      Anchor(<< "/", "x" >>, TRUE, TRUE, FALSE),
      Anchor(<< "/", "b" >>, FALSE, FALSE, TRUE),
      Anchor(<< "?", "no", "=", "a" >>, FALSE, FALSE, FALSE),
      Anchor(<< "http://", "shop", "?", "no", "=", "a" >>, FALSE, FALSE, FALSE),
      Anchor(<< "/", "?", "no", "=", "a" >>, FALSE, FALSE, FALSE) }

\* the listing pages of up to MaxAnchors links
Pages == UNION { [ 1..n -> Anchors ] : n \in 0..MaxAnchors }

\* a catalogue page of n products, listed in descending order of URL
Ids == << "a", "b", "c", "d", "e", "f" >>

CatalogPage(n) ==
    [ i \in 1..n |-> Anchor(<< "/", "products", "/", Ids[n + 1 - i] >>, TRUE, TRUE, TRUE) ]

\* a catalogue page one of whose links has an href that is no URL
BrokenPage ==
    << Anchor(<< "/", "products", "/", "a" >>, TRUE, TRUE, TRUE),
       Anchor(<< "http://", "[", "x" >>, FALSE, FALSE, FALSE) >>

ListingURLs ==
    { << "http://", "shop", "/", "list" >>,
      << "http://", "shop", "/", "products", "/" >> }

\* ------------------------------------------------------ detect_product_links
\* urljoin(url, href) raises ValueError('Invalid IPv6 URL'): the host of href
\* has a "[" that no "]" closes
InvalidURL(href) ==
    \E netloc \in { urlsplit(href).netloc } :
        \E i \in 1..Len(netloc) : netloc[i] = "["

product_patterns ==
    { << "/", "products", "/" >>, << "/", "product", "/" >>, << "/", "item", "/" >>,
      << "/", "goods", "/" >>, << "item_detail.php" >>, << "product_detail.php" >>,
      << "goods_view.php" >>, << "shop_detail.php" >> }

korean_patterns == { "bno", "no", "idx", "product_no", "goods_no", "item_no" }

\* 'product' in str(link).lower() or 'item' in str(link).lower(): the markup
\* of the element, which includes its href
Mentions(link) ==
    \/ link.vocab
    \/ \E i \in 1..Len(link.href) : link.href[i] \in { "products", "product", "item" }

\* the first loop: whether a link whose href resolves to full_url, parsed as
\* parsed_link, is added to product_links
PatternTest(domain, full_url, parsed_link) ==
    /\ ~ (parsed_link.netloc # << >> /\ parsed_link.netloc # domain)
    /\ \/ \E pattern \in product_patterns : Contains(full_url, pattern)
       \/ \E param \in korean_patterns : param \in parse_qs(parsed_link.query)

PatternMatch(url, link) ==
    \E domain \in { urlparse(url).netloc } :
        \E full_url \in { urljoin(url, link.href) } :
            \E parsed_link \in { urlparse(full_url) } :
                PatternTest(domain, full_url, parsed_link)

PatternLinks(url, soup) ==
    { urljoin(url, soup[i].href) : i \in { j \in 1..Len(soup) : PatternMatch(url, soup[j]) } }

\* the links holding a product image
ImageTest(domain, full_url, link) ==
    /\ link.img
    /\ Mentions(link)
    /\ urlparse(full_url).netloc = domain

ImageMatch(url, link) ==
    \E domain \in { urlparse(url).netloc } :
        \E full_url \in { urljoin(url, link.href) } :
            ImageTest(domain, full_url, link)

ImageLinks(url, soup) ==
    { urljoin(url, soup[i].href) : i \in { j \in 1..Len(soup) : ImageMatch(url, soup[j]) } }

\* the links in the common product containers
ContainerTest(url, domain, full_url, link) ==
    /\ link.container
    /\ urlparse(full_url).netloc = domain
    /\ full_url # url

ContainerMatch(url, link) ==
    \E domain \in { urlparse(url).netloc } :
        \E full_url \in { urljoin(url, link.href) } :
            ContainerTest(url, domain, full_url, link)

ContainerLinks(url, soup) ==
    { urljoin(url, soup[i].href) : i \in { j \in 1..Len(soup) : ContainerMatch(url, soup[j]) } }

FallbackLinks(url, soup) == ImageLinks(url, soup) \cup ContainerLinks(url, soup)

\* the fallback scans run whatever the first loop found
DetectFromBoth(url, soup, product_links) ==
    sorted(product_links \cup FallbackLinks(url, soup))

\* product_links after the first loop, and the list returned from it
DetectFrom(url, soup, product_links) ==
    IF product_links = {}
    THEN sorted(FallbackLinks(url, soup))
    ELSE sorted(product_links)

detect_product_links(url, soup) ==
    CHOOSE r \in
        { DetectFrom(u, page, product_links) :
            u \in { url }, page \in { soup },
            product_links \in { PatternLinks(url, soup) } } : TRUE

\* ------------------------------------------------------------------- state
VARIABLES
    pc,                  \* where the thread running process_collection is
    url,                 \* the listing URL
    max_products,        \* the cap
    output_format,       \* 'pdf' or 'docx'
    soup,                \* the parsed listing page, inside get_product_links
    product_links,       \* the candidate links
    futures,             \* future_to_url: index -> the state of its task
    api_semaphore,       \* the free permits of api_semaphore
    pdf_files,           \* (index, path) of the successes, in arrival order
    failed_conversions,  \* index of the failures, in arrival order
    completed,           \* the progress counter
    temp_dir,            \* the temporary directory: whether it exists, its files,
                         \* and which of them hold no bytes
    merge_calls,         \* the 'Files' argument of every merge sent to the backend
    transcode_calls,     \* the 'File' argument of every docx conversion sent
    arrival,             \* the indices in the order as_completed yielded them
    st_error,            \* the st.error messages shown
    st_warning,          \* the st.warning notices shown
    progress_bar,        \* the fraction last given to progress_bar.progress
    result               \* what process_collection returned

vars ==
    << pc, url, max_products, output_format, soup, product_links, futures,
       api_semaphore, pdf_files, failed_conversions, completed, temp_dir,
       merge_calls, transcode_calls, arrival, st_error, st_warning,
       progress_bar, result >>

None == [ content |-> "None", format |-> "None" ]

Digit(d) == << "0", "1", "2", "3", "4", "5", "6", "7", "8", "9" >>[d + 1]

\* a file name that leaves the index out
filepathNoIndex(index) == << "temp_dir", "/", "product.pdf" >>

\* os.path.join(output_dir, f"{index:03d}_product.pdf")
filepath(index) ==
    << "temp_dir", "/", Digit((index \div 100) % 10), Digit((index \div 10) % 10),
       Digit(index % 10), "_product.pdf" >>

merged_pdf == << "temp_dir", "/", "merged.pdf" >>

final_docx == << "temp_dir", "/", "products.docx" >>

\* list.sort(key=lambda x: x[0]): ascending key, equal keys in their old order
SortedPosition(files, j) ==
    1 + Cardinality({ k \in 1..Len(files) :
                        \/ files[k][1] < files[j][1]
                        \/ files[k][1] = files[j][1] /\ k < j })

\* the sort left out: the files stay in arrival order
SortByIndexArrival(files) == files

SortByIndex(files) ==
    [ i \in 1..Len(files) |->
        files[CHOOSE j \in 1..Len(files) : SortedPosition(files, j) = i] ]

\* [path for _, path in pdf_files]
pdf_paths(files) == [ i \in 1..Len(files) |-> files[i][2] ]

\* the slice left out
TruncatedNoCap(links, cap) == links

\* product_links[:max_products]
Truncated(links, cap) == SubSeq(links, 1, IF Len(links) > cap THEN cap ELSE Len(links))

Start(urls, caps, formats) ==
    /\ pc = "fetch"
    /\ url \in urls
    /\ max_products \in caps
    /\ output_format \in formats
    /\ soup = << >>
    /\ product_links = << >>
    /\ futures = << >>
    /\ api_semaphore = SemaphoreWidth
    /\ pdf_files = << >>
    /\ failed_conversions = << >>
    /\ completed = 0
    /\ temp_dir = [ exists |-> TRUE, files |-> {}, empty |-> {} ]
    /\ merge_calls = << >>
    /\ transcode_calls = << >>
    /\ arrival = << >>
    /\ st_error = {}
    /\ st_warning = {}
    /\ progress_bar = << 0, 1 >>
    /\ result = None

Init == Start(ListingURLs, 1..MaxCap, { "pdf", "docx" })

\* open(path, 'rb').read(): the bytes of the file, named by the file they are
\* the bytes of
ReadFile(dir, path) ==
    IF dir.exists /\ path \in dir.files THEN path ELSE << "FileNotFoundError" >>

\* a return that leaves the directory behind
ReturnLeavesDir(value) ==
    /\ pc' = "done"
    /\ result' = value
    /\ temp_dir' = temp_dir

\* leaving the 'with tempfile.TemporaryDirectory()' block with a return value
Return(value) ==
    /\ pc' = "done"
    /\ result' = value
    /\ temp_dir' = [ exists |-> FALSE, files |-> {}, empty |-> {} ]

\* ---------------------------------------------------------- get_product_links
\* requests.get and BeautifulSoup succeed and yield the page doc
Fetch(doc) ==
    /\ pc = "fetch"
    /\ soup' = doc
    /\ pc' = "parsed"
    /\ UNCHANGED << url, max_products, output_format, product_links, futures,
                    api_semaphore, pdf_files, failed_conversions, completed,
                    temp_dir, merge_calls, transcode_calls, st_error, result,
                    arrival, st_warning, progress_bar >>

FetchPage == \E doc \in Pages : Fetch(doc)

FetchCatalog == \E n \in 0..MaxLinks : Fetch(CatalogPage(n))

FetchBroken == Fetch(BrokenPage)

\* requests.RequestException: st.error, return []
FetchFails ==
    /\ pc = "fetch"
    /\ st_error' = st_error \cup { "Error fetching page" }
    /\ product_links' = << >>
    /\ pc' = "returned"
    /\ UNCHANGED << url, max_products, output_format, soup, futures, api_semaphore,
                    pdf_files, failed_conversions, completed, temp_dir, merge_calls,
                    transcode_calls, result, arrival, st_warning, progress_bar >>

\* urljoin raises ValueError, which get_product_links does not catch: the
\* exception leaves process_collection through the TemporaryDirectory block
DetectRaises ==
    /\ pc = "parsed"
    /\ \E i \in 1..Len(soup) : InvalidURL(soup[i].href)
    /\ soup' = << >>
    /\ pc' = "raised"
    /\ temp_dir' = [ exists |-> FALSE, files |-> {}, empty |-> {} ]
    /\ UNCHANGED << url, max_products, output_format, product_links, futures,
                    api_semaphore, pdf_files, failed_conversions, completed,
                    merge_calls, transcode_calls, st_error, result, arrival,
                    st_warning, progress_bar >>

DetectLinks ==
    /\ pc = "parsed"
    /\ \A i \in 1..Len(soup) : ~ InvalidURL(soup[i].href)
    /\ product_links' = detect_product_links(url, soup)
    /\ pc' = "detected"
    /\ UNCHANGED << url, max_products, output_format, soup, futures, api_semaphore,
                    pdf_files, failed_conversions, completed, temp_dir, merge_calls,
                    transcode_calls, st_error, result, arrival, st_warning,
                    progress_bar >>

\* return product_links: the page goes out of scope
ReturnLinks ==
    /\ pc = "detected"
    /\ soup' = << >>
    /\ pc' = "returned"
    /\ UNCHANGED << url, max_products, output_format, product_links, futures,
                    api_semaphore, pdf_files, failed_conversions, completed,
                    temp_dir, merge_calls, transcode_calls, st_error, result,
                    arrival, st_warning, progress_bar >>

\* --------------------------------------------------------- process_collection
NoLinks ==
    /\ pc = "returned"
    /\ product_links = << >>
    /\ st_error' = st_error \cup { "No product links found!" }
    /\ Return(None)
    /\ UNCHANGED << url, max_products, output_format, soup, product_links, futures,
                    api_semaphore, pdf_files, failed_conversions, completed,
                    merge_calls, transcode_calls, arrival, st_warning, progress_bar >>

\* executor.submit(convert_url_to_pdf, url, temp_dir, i) for i, url in
\* enumerate(product_links, 1); attempts counts the calls of convertapi.convert
\* made for the task
Submitted(links) ==
    [ i \in 1..Len(links) |->
        [ url |-> links[i], index |-> i, state |-> "queued", success |-> FALSE,
          attempts |-> 0 ] ]

\* the links are cut to the cap, with a warning when any is dropped, and one
\* task per link is submitted to the executor
Dispatch ==
    /\ pc = "returned"
    /\ product_links # << >>
    /\ st_warning' = IF Len(product_links) > max_products
                     THEN st_warning \cup { [ found |-> Len(product_links),
                                              first |-> max_products ] }
                     ELSE st_warning
    /\ product_links' = Truncated(product_links, max_products)
    /\ futures' = Submitted(product_links')
    /\ pdf_files' = << >>
    /\ failed_conversions' = << >>
    /\ completed' = 0
    /\ pc' = "collect"
    /\ UNCHANGED << url, max_products, output_format, soup, api_semaphore, temp_dir,
                    merge_calls, transcode_calls, arrival, st_error, result,
                    progress_bar >>

\* ---------------------------------------------------------- convert_url_to_pdf
InState(st) == { i \in DOMAIN futures : futures[i].state \in st }

\* a worker thread of the executor takes the oldest queued work item
WorkerTake(i) ==
    /\ i \in InState({ "queued" })
    /\ \A j \in InState({ "queued" }) : i <= j
    /\ Cardinality(InState({ "running", "section" })) < MaxWorkers
    /\ futures' = [ futures EXCEPT ![i].state = "running" ]
    /\ UNCHANGED << pc, url, max_products, output_format, soup, product_links,
                    api_semaphore, pdf_files, failed_conversions, completed,
                    temp_dir, merge_calls, transcode_calls, st_error, result,
                    arrival, st_warning, progress_bar >>

\* convert_url_to_pdf entered by a thread of its own, whatever the width of
\* the executor in front of it
ThreadCall(i) ==
    /\ i \in InState({ "queued" })
    /\ futures' = [ futures EXCEPT ![i].state = "running" ]
    /\ UNCHANGED << pc, url, max_products, output_format, soup, product_links,
                    api_semaphore, pdf_files, failed_conversions, completed,
                    temp_dir, merge_calls, transcode_calls, st_error, result,
                    arrival, st_warning, progress_bar >>

\* an acquire that never blocks
CanAcquireAlways == TRUE

\* Semaphore.acquire: blocks while no permit is free
CanAcquire == api_semaphore > 0

\* with api_semaphore: (entry)
Acquire(i) ==
    /\ i \in InState({ "running" })
    /\ CanAcquire
    /\ api_semaphore' = api_semaphore - 1
    /\ futures' = [ futures EXCEPT ![i].state = "section" ]
    /\ UNCHANGED << pc, url, max_products, output_format, soup, product_links,
                    pdf_files, failed_conversions, completed, temp_dir, merge_calls,
                    transcode_calls, st_error, result, arrival, st_warning,
                    progress_bar >>

\* a permit that is given back only when the render succeeded
RenderKeepsPermit(i, ok) ==
    /\ i \in InState({ "section" })
    /\ temp_dir' = IF ok
                   THEN [ temp_dir EXCEPT !.files = @ \cup { filepath(futures[i].index) } ]
                   ELSE temp_dir
    /\ api_semaphore' = IF ok THEN api_semaphore + 1 ELSE api_semaphore
    /\ futures' = [ futures EXCEPT ![i].state = "done", ![i].success = ok,
                                    ![i].attempts = @ + 1 ]
    /\ UNCHANGED << pc, url, max_products, output_format, soup, product_links,
                    pdf_files, failed_conversions, completed, merge_calls,
                    transcode_calls, st_error, result, arrival, st_warning,
                    progress_bar >>

\* the worker thread itself records its file in pdf_files and shows the status
RenderAppends(i, ok) ==
    /\ i \in InState({ "section" })
    /\ temp_dir' = IF ok
                   THEN [ temp_dir EXCEPT !.files = @ \cup { filepath(futures[i].index) } ]
                   ELSE temp_dir
    /\ api_semaphore' = api_semaphore + 1
    /\ futures' = [ futures EXCEPT ![i].state = "done", ![i].success = ok,
                                    ![i].attempts = @ + 1 ]
    /\ pdf_files' = IF ok
                    THEN Append(pdf_files, << futures[i].index, filepath(futures[i].index) >>)
                    ELSE pdf_files
    /\ UNCHANGED << pc, url, max_products, output_format, soup, product_links,
                    failed_conversions, completed, merge_calls, transcode_calls,
                    st_error, result, arrival, st_warning, progress_bar >>

\* the body of the with block and its exit: the render and the save succeed
\* (ok) or raise, the dict is returned, the permit is released
Render(i, ok) ==
    /\ i \in InState({ "section" })
    /\ temp_dir' = IF ok
                   THEN [ temp_dir EXCEPT !.files = @ \cup { filepath(futures[i].index) } ]
                   ELSE temp_dir
    /\ api_semaphore' = api_semaphore + 1
    /\ futures' = [ futures EXCEPT ![i].state = "done", ![i].success = ok,
                                    ![i].attempts = @ + 1 ]
    /\ UNCHANGED << pc, url, max_products, output_format, soup, product_links,
                    pdf_files, failed_conversions, completed, merge_calls,
                    transcode_calls, st_error, result, arrival, st_warning,
                    progress_bar >>

\* the render succeeds and result.file.save writes a file of no bytes: the
\* dict returned says success all the same
RenderEmpty(i) ==
    /\ i \in InState({ "section" })
    /\ temp_dir' = [ temp_dir EXCEPT !.files = @ \cup { filepath(futures[i].index) },
                                     !.empty = @ \cup { filepath(futures[i].index) } ]
    /\ api_semaphore' = api_semaphore + 1
    /\ futures' = [ futures EXCEPT ![i].state = "done", ![i].success = TRUE,
                                    ![i].attempts = @ + 1 ]
    /\ UNCHANGED << pc, url, max_products, output_format, soup, product_links,
                    pdf_files, failed_conversions, completed, merge_calls,
                    transcode_calls, st_error, result, arrival, st_warning,
                    progress_bar >>

\* ------------------------------------------- process_collection, after dispatch
\* a round that records successes only
CollectDropsFailure(i) ==
    /\ pc = "collect"
    /\ i \in InState({ "done" })
    /\ futures' = [ futures EXCEPT ![i].state = "collected" ]
    /\ pdf_files' = IF futures[i].success
                    THEN Append(pdf_files, << futures[i].index, filepath(futures[i].index) >>)
                    ELSE pdf_files
    /\ completed' = completed + 1
    /\ progress_bar' = << completed', Len(product_links) >>
    /\ arrival' = Append(arrival, futures[i].index)
    /\ UNCHANGED << pc, url, max_products, output_format, soup, product_links,
                    api_semaphore, failed_conversions, temp_dir, merge_calls,
                    transcode_calls, st_error, st_warning, result >>

\* a round that counts successes only
CollectCountsSuccesses(i) ==
    /\ pc = "collect"
    /\ i \in InState({ "done" })
    /\ futures' = [ futures EXCEPT ![i].state = "collected" ]
    /\ pdf_files' = IF futures[i].success
                    THEN Append(pdf_files, << futures[i].index, filepath(futures[i].index) >>)
                    ELSE pdf_files
    /\ failed_conversions' = IF futures[i].success
                             THEN failed_conversions
                             ELSE Append(failed_conversions, futures[i].index)
    /\ completed' = IF futures[i].success THEN completed + 1 ELSE completed
    /\ progress_bar' = << completed', Len(product_links) >>
    /\ arrival' = Append(arrival, futures[i].index)
    /\ UNCHANGED << pc, url, max_products, output_format, soup, product_links,
                    api_semaphore, temp_dir, merge_calls, transcode_calls, st_error,
                    st_warning, result >>

\* one round of 'for future in as_completed(future_to_url)'
Collect(i) ==
    /\ pc = "collect"
    /\ i \in InState({ "done" })
    /\ futures' = [ futures EXCEPT ![i].state = "collected" ]
    /\ pdf_files' = IF futures[i].success
                    THEN Append(pdf_files, << futures[i].index, filepath(futures[i].index) >>)
                    ELSE pdf_files
    /\ failed_conversions' = IF futures[i].success
                             THEN failed_conversions
                             ELSE Append(failed_conversions, futures[i].index)
    /\ completed' = completed + 1
    /\ progress_bar' = << completed', Len(product_links) >>
    /\ arrival' = Append(arrival, futures[i].index)
    /\ UNCHANGED << pc, url, max_products, output_format, soup, product_links,
                    api_semaphore, temp_dir, merge_calls, transcode_calls, st_error,
                    st_warning, result >>

\* the loop left at the first result
AnyCollected == \E i \in DOMAIN futures : futures[i].state = "collected"

\* as_completed is exhausted and the executor has shut down: every future has
\* been yielded
AllCollected == \A i \in DOMAIN futures : futures[i].state = "collected"

\* the run given up as soon as any task failed
NoArtifactsOnAnyFailure ==
    /\ pc = "collect"
    /\ AllCollected
    /\ failed_conversions # << >>
    /\ st_error' = st_error \cup { "No PDFs were successfully created!" }
    /\ Return(None)
    /\ UNCHANGED << url, max_products, output_format, soup, product_links, futures,
                    api_semaphore, pdf_files, failed_conversions, completed,
                    merge_calls, transcode_calls, arrival, st_warning, progress_bar >>

\* the loop and the executor are left with no success: return None, None
NoArtifacts ==
    /\ pc = "collect"
    /\ AllCollected
    /\ pdf_files = << >>
    /\ st_error' = st_error \cup { "No PDFs were successfully created!" }
    /\ Return(None)
    /\ UNCHANGED << url, max_products, output_format, soup, product_links, futures,
                    api_semaphore, pdf_files, failed_conversions, completed,
                    merge_calls, transcode_calls, arrival, st_warning, progress_bar >>

\* the loop and the executor are left with a success: pdf_files.sort
SortFiles ==
    /\ pc = "collect"
    /\ AllCollected
    /\ pdf_files # << >>
    /\ pdf_files' = SortByIndex(pdf_files)
    /\ pc' = "merge"
    /\ UNCHANGED << url, max_products, output_format, soup, product_links, futures,
                    api_semaphore, failed_conversions, completed, temp_dir,
                    merge_calls, transcode_calls, st_error, result, arrival,
                    st_warning, progress_bar >>

\* merge_pdfs(pdf_paths, merged_pdf) saves the merged file
MergeOk ==
    /\ pc = "merge"
    /\ merge_calls' = Append(merge_calls, pdf_paths(pdf_files))
    /\ temp_dir' = [ temp_dir EXCEPT !.files = @ \cup { merged_pdf } ]
    /\ pc' = "merged"
    /\ UNCHANGED << url, max_products, output_format, soup, product_links, futures,
                    api_semaphore, pdf_files, failed_conversions, completed,
                    transcode_calls, st_error, result, arrival, st_warning,
                    progress_bar >>

\* merge_pdfs raises inside: st.error, None, and process_collection returns
MergeFails ==
    /\ pc = "merge"
    /\ merge_calls' = Append(merge_calls, pdf_paths(pdf_files))
    /\ st_error' = st_error \cup { "Error merging PDFs" }
    /\ Return(None)
    /\ UNCHANGED << url, max_products, output_format, soup, product_links, futures,
                    api_semaphore, pdf_files, failed_conversions, completed,
                    transcode_calls, arrival, st_warning, progress_bar >>

\* the merged file returned whatever the format asked for
ReturnPdfAnyFormat ==
    /\ pc = "merged"
    /\ Return([ content |-> ReadFile(temp_dir, merged_pdf), format |-> "pdf" ])
    /\ UNCHANGED << url, max_products, output_format, soup, product_links, futures,
                    api_semaphore, pdf_files, failed_conversions, completed,
                    merge_calls, transcode_calls, st_error, arrival, st_warning,
                    progress_bar >>

\* output_format == 'pdf': the merged file is read and returned
ReturnPdf ==
    /\ pc = "merged"
    /\ output_format = "pdf"
    /\ Return([ content |-> ReadFile(temp_dir, merged_pdf), format |-> "pdf" ])
    /\ UNCHANGED << url, max_products, output_format, soup, product_links, futures,
                    api_semaphore, pdf_files, failed_conversions, completed,
                    merge_calls, transcode_calls, st_error, arrival, st_warning,
                    progress_bar >>

\* convert_pdf_to_docx(merged_pdf, final_docx) saves the document, which is
\* read and returned
TranscodeOk ==
    /\ pc = "merged"
    /\ output_format # "pdf"
    /\ transcode_calls' = Append(transcode_calls, merged_pdf)
    /\ \E saved \in { [ temp_dir EXCEPT !.files = @ \cup { final_docx } ] } :
          Return([ content |-> ReadFile(saved, final_docx), format |-> "docx" ])
    /\ UNCHANGED << url, max_products, output_format, soup, product_links, futures,
                    api_semaphore, pdf_files, failed_conversions, completed,
                    merge_calls, st_error, arrival, st_warning, progress_bar >>

\* the merged file returned when the docx conversion fails
TranscodeFailsReturnsPdf ==
    /\ pc = "merged"
    /\ output_format # "pdf"
    /\ transcode_calls' = Append(transcode_calls, merged_pdf)
    /\ st_error' = st_error \cup { "Error converting PDF to DOCX" }
    /\ Return([ content |-> ReadFile(temp_dir, merged_pdf), format |-> "pdf" ])
    /\ UNCHANGED << url, max_products, output_format, soup, product_links, futures,
                    api_semaphore, pdf_files, failed_conversions, completed,
                    merge_calls, arrival, st_warning, progress_bar >>

\* convert_pdf_to_docx raises inside: st.error, None, and process_collection
\* returns
TranscodeFails ==
    /\ pc = "merged"
    /\ output_format # "pdf"
    /\ transcode_calls' = Append(transcode_calls, merged_pdf)
    /\ st_error' = st_error \cup { "Error converting PDF to DOCX" }
    /\ Return(None)
    /\ UNCHANGED << url, max_products, output_format, soup, product_links, futures,
                    api_semaphore, pdf_files, failed_conversions, completed,
                    merge_calls, arrival, st_warning, progress_bar >>

\* ------------------------------------------------------------ specifications
Extraction ==
    \/ FetchFails
    \/ DetectLinks
    \/ ReturnLinks

Assembly ==
    \/ NoLinks
    \/ Dispatch
    \/ \E i \in DOMAIN futures : Acquire(i)
    \/ \E i \in DOMAIN futures : \E ok \in BOOLEAN : Render(i, ok)
    \/ \E i \in DOMAIN futures : Collect(i)
    \/ NoArtifacts
    \/ SortFiles
    \/ MergeOk
    \/ MergeFails
    \/ ReturnPdf
    \/ TranscodeOk
    \/ TranscodeFails

\* a whole run on a catalogue page
Next ==
    \/ FetchCatalog
    \/ FetchBroken
    \/ DetectRaises
    \/ Extraction
    \/ Assembly
    \/ \E i \in DOMAIN futures : WorkerTake(i)
    \/ \E i \in DOMAIN futures : RenderEmpty(i)

Spec == Init /\ [][Next]_vars

\* the extractor on every listing page of up to MaxAnchors links
InitExtract == Start(ListingURLs, { 1 }, { "pdf" })

NextExtract ==
    \/ FetchPage
    \/ DetectLinks

SpecExtract == InitExtract /\ [][NextExtract]_vars

\* convert_url_to_pdf and api_semaphore under any number of calling threads:
\* a catalogue of one product more than there are permits, every task entering
\* convert_url_to_pdf on a thread of its own
InitCallers == Start(ListingURLs, { SemaphoreWidth + 1 }, { "pdf", "docx" })

FetchBusyCatalog == Fetch(CatalogPage(SemaphoreWidth + 1))

NextCallers ==
    \/ FetchBusyCatalog
    \/ Extraction
    \/ Assembly
    \/ \E i \in DOMAIN futures : ThreadCall(i)

SpecCallers == InitCallers /\ [][NextCallers]_vars

\* ------------------------------------------------------------------ claims
Range(seq) == { seq[i] : i \in DOMAIN seq }

\* the tasks whose render succeeded
Successes == { i \in DOMAIN futures : futures[i].success }

\* the members of a set of indices, in ascending order
Ascending(S) ==
    [ r \in 1..Cardinality(S) |-> CHOOSE i \in S : Cardinality({ j \in S : j < i }) = r - 1 ]

\* the batch phase of a run that dispatched tasks is over
BatchOver == futures # << >> /\ pc \in { "merge", "merged", "done" }

\* C1: every list of files handed to the merge is the artifacts of exactly the
\* successful tasks, in strictly ascending sequence index, whatever the order
\* in which the tasks were collected.
C1_MergeInputAscending ==
    \A k \in 1..Len(merge_calls) :
        merge_calls[k] =
            [ r \in 1..Cardinality(Successes) |-> filepath(Ascending(Successes)[r]) ]

\* a merge was sent although two successes had arrived in descending order
C1_Witness ==
    /\ Len(merge_calls) = 1
    /\ \E a, b \in 1..Len(arrival) :
          /\ a < b
          /\ arrival[a] > arrival[b]
          /\ { arrival[a], arrival[b] } \subseteq Successes

\* C2: leaving the extractor with N candidate links, the run dispatches exactly
\* min(N, max_products) tasks, task i carrying index i and the i-th link of
\* the sorted candidate list, and no task's index or link changes afterwards.
C2_DispatchFirstCap ==
    [][ /\ (pc = "returned" /\ pc' # "returned") =>
              LET K == IF Len(product_links) < max_products
                       THEN Len(product_links) ELSE max_products
              IN  /\ DOMAIN futures' = 1..K
                  /\ \A i \in 1..K :
                        /\ futures'[i].index = i
                        /\ futures'[i].url = product_links[i]
                        /\ futures'[i].state = "queued"
        /\ futures # << >> =>
              /\ DOMAIN futures' = DOMAIN futures
              /\ \A i \in DOMAIN futures :
                    /\ futures'[i].index = futures[i].index
                    /\ futures'[i].url = futures[i].url
      ]_vars

\* more links than the cap were found, and as many tasks as the cap run
C2_Witness ==
    /\ pc = "collect"
    /\ st_warning # {}
    /\ max_products >= 2
    /\ Len(futures) = max_products

\* C3: the run ends with the no-artifacts error exactly when the batch is over
\* with no successful task; then no merge and no transcode was sent and
\* nothing is returned; with a success the run goes on to the merge.
C3_NoArtifactsIffNoSuccess ==
    /\ ("No PDFs were successfully created!" \in st_error) <=> (BatchOver /\ Successes = {})
    /\ ("No PDFs were successfully created!" \in st_error) =>
          /\ merge_calls = << >>
          /\ transcode_calls = << >>
          /\ result = None
          /\ pc = "done"
    /\ (BatchOver /\ Successes # {}) => (pc = "merge" \/ Len(merge_calls) = 1)

\* every task of a batch of two or more failed
C3_Witness ==
    /\ "No PDFs were successfully created!" \in st_error
    /\ Len(futures) >= 2
    /\ Len(failed_conversions) = Len(futures)

\* C4: the tasks inside the api_semaphore section are never more than the
\* permits of the semaphore.
C4_OutstandingWithinPermits ==
    Cardinality(InState({ "section" })) <= SemaphoreWidth

\* every permit is taken and a further task waits for one
C4_Witness ==
    /\ Cardinality(InState({ "section" })) = SemaphoreWidth
    /\ InState({ "running" }) # {}

\* C5: when the batch is over every dispatched index is once in pdf_files or
\* once in failed_conversions, never in both or in neither, on the side its
\* outcome names, so that the two lists together hold K entries.
Occurrences(seq, x) == Cardinality({ k \in DOMAIN seq : seq[k] = x })

C5_OneOutcomePerTask ==
    BatchOver =>
        /\ DOMAIN futures = 1..Len(product_links)
        /\ Len(pdf_files) + Len(failed_conversions) = Len(product_links)
        /\ \A i \in 1..Len(product_links) :
              /\ Occurrences(pdf_paths(pdf_files), filepath(i))
                   + Occurrences(failed_conversions, i) = 1
              /\ Occurrences([ k \in DOMAIN pdf_files |-> pdf_files[k][1] ], i)
                   = IF futures[i].success THEN 1 ELSE 0

\* a batch of three whose first arrival was a failure and which has a success
C5_Witness ==
    /\ BatchOver
    /\ Len(product_links) >= 3
    /\ arrival[1] \notin Successes
    /\ Successes # {}

\* C6: when the pattern strategy finds a link, the list returned is the links
\* the pattern strategy found, and none that only the fallback scans match.
C6_FallbackOnlyWhenPatternEmpty ==
    (pc = "detected" /\ PatternLinks(url, soup) # {}) =>
        Range(product_links) = PatternLinks(url, soup)

\* a page with a pattern link and a link only the fallback scans match
C6_Witness ==
    /\ pc = "detected"
    /\ PatternLinks(url, soup) # {}
    /\ FallbackLinks(url, soup) \ PatternLinks(url, soup) # {}

\* a URL without its fragment and with the default path "/"
NormalizeParsed(p) ==
    urlunparse([ p EXCEPT !.fragment = << >>,
                          !.path = IF p.path = << >> /\ p.netloc # << >>
                                   THEN << "/" >> ELSE p.path ])

Normalize(u) == CHOOSE r \in { NormalizeParsed(p) : p \in { urlparse(u) } } : TRUE

\* C7: no two entries of the returned list are the same URL once the fragment
\* is dropped and an empty path is read as "/".
C7_NoDuplicateAfterNormalization ==
    pc = "detected" =>
        \A i, j \in 1..Len(product_links) :
            i # j => Normalize(product_links[i]) # Normalize(product_links[j])

\* the pages that show the same set of anchors as page
SameAnchors(page) ==
    UNION { { p \in [ 1..m -> Range(page) ] : Range(p) = Range(page) } : m \in 0..MaxAnchors }

\* C8: the returned list is in strictly ascending order of URL, and every page
\* showing the same anchors, in any order, yields the same list.
C8_SortedAndOrderIndependent ==
    pc = "detected" =>
        /\ \A i \in 1..(Len(product_links) - 1) :
              LexLess(product_links[i], product_links[i + 1])
        /\ \A page \in SameAnchors(soup) :
              detect_product_links(url, page) = product_links

\* the link listed first on the page is returned second
C8_Witness ==
    /\ pc = "detected"
    /\ Len(product_links) >= 2
    /\ urljoin(url, soup[1].href) = product_links[2]

\* C9: every URL returned has the host of the listing page.
C9_SameHost ==
    pc = "detected" =>
        \A i \in 1..Len(product_links) :
            urlparse(product_links[i]).netloc = urlparse(url).netloc

\* C10: the listing page's own URL is never returned.
C10_OwnUrlExcluded ==
    pc = "detected" => url \notin Range(product_links)

\* C11: when the fetch of the listing page fails, the caller of the extractor
\* is not handed an empty candidate list, the run does not end with the
\* no-links-found error, and no task, merge or transcode is sent.
C11_FetchFailureNotNoLinks ==
    "Error fetching page" \in st_error =>
        /\ pc = "returned" => product_links # << >>
        /\ "No product links found!" \notin st_error
        /\ futures = << >>
        /\ merge_calls = << >>
        /\ transcode_calls = << >>

\* the merge was sent and did not fail
MergeSucceeded == Len(merge_calls) = 1 /\ "Error merging PDFs" \notin st_error

\* C12: a transcode is sent only after a successful merge and only when the
\* format asked for is not 'pdf'; a run that ends after a successful merge has
\* sent no transcode and returns the merged file tagged 'pdf' when 'pdf' was
\* asked for, and otherwise has sent one transcode and, unless that failed,
\* returns its document tagged 'docx'; the tag returned is the format asked for.
C12_TranscodeIffNotPdf ==
    /\ transcode_calls # << >> => (MergeSucceeded /\ output_format # "pdf")
    /\ (pc = "done" /\ MergeSucceeded) =>
          /\ (output_format = "pdf") <=> (transcode_calls = << >>)
          /\ output_format = "pdf" =>
                (result.format = "pdf" /\ result.content = merged_pdf)
          /\ (output_format # "pdf" /\ "Error converting PDF to DOCX" \notin st_error) =>
                /\ transcode_calls = << merged_pdf >>
                /\ result.format = "docx"
                /\ result.content = final_docx
    /\ result.format # "None" => (MergeSucceeded /\ result.format = output_format)

\* a run asked for 'docx' merged two files, sent the transcode and returned
C12_Witness ==
    /\ pc = "done"
    /\ output_format = "docx"
    /\ result.format = "docx"
    /\ transcode_calls = << merged_pdf >>
    /\ Len(merge_calls[1]) >= 2

\* the states a task goes through, in order
StateRank(st) ==
    CHOOSE r \in 1..5 : << "queued", "running", "section", "done", "collected" >>[r] = st

\* C13: whenever the batch result is examined, the files are sorted or a merge
\* or transcode has been sent, every dispatched task has ended and been
\* collected; and a dispatched task is never withdrawn: each step leaves it in
\* its state or moves it one state on, towards its end.
C13_MergeAfterAllTerminal ==
    /\ [](\/ BatchOver
          \/ merge_calls # << >>
          \/ transcode_calls # << >>
          \/ "No PDFs were successfully created!" \in st_error
          => /\ futures # << >>
             /\ \A i \in DOMAIN futures : futures[i].state = "collected"
             /\ InState({ "queued", "running", "section" }) = {})
    /\ [][ futures # << >> =>
              /\ DOMAIN futures' = DOMAIN futures
              /\ \A i \in DOMAIN futures :
                    \/ futures'[i].state = futures[i].state
                    \/ StateRank(futures'[i].state) = StateRank(futures[i].state) + 1
         ]_vars

\* the merge is sent after a batch of three in which a later task ended while
\* an earlier one was still to end
C13_Witness ==
    /\ Len(merge_calls) = 1
    /\ Len(futures) >= 3
    /\ \E a \in 1..(Len(arrival) - 1) : arrival[a] > arrival[a + 1]

\* C14: the progress counter is 0 until a task has been collected, is the
\* number of tasks collected so far, successes and failures alike, never
\* exceeds the number K of tasks dispatched and is K once all are collected;
\* each step leaves it or adds 1 to it, and the fraction reported is the
\* counter over K.
C14_ProgressCountsEveryTask ==
    /\ [](/\ completed = Cardinality(InState({ "collected" }))
          /\ completed = Len(pdf_files) + Len(failed_conversions)
          /\ completed <= Len(futures)
          /\ (futures # << >> /\ AllCollected) => completed = Len(futures)
          /\ progress_bar = IF completed = 0
                            THEN << 0, 1 >>
                            ELSE << completed, Len(futures) >>)
    /\ [][ \/ completed' = completed
           \/ /\ completed' = completed + 1
              /\ \E i \in DOMAIN futures :
                    /\ futures[i].state = "done"
                    /\ futures'[i].state = "collected"
         ]_vars

\* a batch of three with a failure and a success is fully counted
C14_Witness ==
    /\ pc = "collect"
    /\ Len(futures) >= 3
    /\ progress_bar = << Len(futures), Len(futures) >>
    /\ failed_conversions # << >>
    /\ pdf_files # << >>

\* C15: convertapi.convert is called at most once for each task, and once for
\* each task that has ended; at most one merge and at most one transcode are
\* sent in a run; a failed merge ends the run with nothing returned and no
\* transcode sent, and a failed transcode ends the run with nothing returned.
C15_NoRetry ==
    /\ \A i \in DOMAIN futures :
          futures[i].attempts =
              IF futures[i].state \in { "done", "collected" } THEN 1 ELSE 0
    /\ Len(merge_calls) <= 1
    /\ Len(transcode_calls) <= 1
    /\ "Error merging PDFs" \in st_error =>
          /\ pc = "done"
          /\ result.format = "None" /\ result.content = "None"
          /\ transcode_calls = << >>
    /\ "Error converting PDF to DOCX" \in st_error =>
          /\ pc = "done"
          /\ result.format = "None" /\ result.content = "None"
          /\ Len(merge_calls) = 1

\* the transcode failed after a merge to which a task had not contributed,
\* its one render having failed
C15_Witness ==
    /\ "Error converting PDF to DOCX" \in st_error
    /\ failed_conversions # << >>
    /\ Len(merge_calls) = 1

\* C16: once the run has ended, by a return on any path or by an exception,
\* the temporary directory and every file saved in it are gone; files exist
\* only inside the directory while it exists; and what a successful run
\* returns is the bytes of the file of the format asked for, read while the
\* file was there.
C16_WorkspaceReclaimed ==
    /\ pc \in { "done", "raised" } => (~ temp_dir.exists /\ temp_dir.files = {})
    /\ pc \notin { "done", "raised" } => temp_dir.exists
    /\ temp_dir.files # {} => temp_dir.exists
    /\ result.format # "None" =>
          /\ pc = "done"
          /\ result.content = IF result.format = "pdf" THEN merged_pdf ELSE final_docx

\* a run that had saved the files of two tasks returned the merged PDF
C16_Witness ==
    /\ pc = "done"
    /\ result.format = "pdf"
    /\ Cardinality(Successes) >= 2
    /\ ~ temp_dir.exists

\* C17: no merge is sent with a file that is missing or holds no bytes: every
\* path handed to the backend names a file of the directory that is not empty.
C17_MergeInputsValidated ==
    [][ merge_calls' # merge_calls =>
            \A k \in 1..Len(pdf_files) :
                /\ pdf_files[k][2] \in temp_dir.files
                /\ pdf_files[k][2] \notin temp_dir.empty
      ]_vars

\* a step of a worker thread: a task is taken from the queue, enters the
\* semaphore section or ends its render
WorkerStep ==
    \E i \in DOMAIN futures :
        /\ i \in DOMAIN futures'
        /\ futures'[i].state # futures[i].state
        /\ futures'[i].state \in { "running", "section", "done" }

\* C18: no step of a worker thread changes the success list, the failure
\* list, the progress counter or anything displayed; these change only in
\* steps of the thread running process_collection.
C18_WorkersLeaveDisplayAlone ==
    [][ WorkerStep =>
            UNCHANGED << pdf_files, failed_conversions, completed, arrival,
                         progress_bar, st_error, st_warning, pc, result >>
      ]_vars

\* one worker has ended a render and another is inside the section while
\* nothing has been recorded or displayed yet
C18_Witness ==
    /\ InState({ "done" }) # {}
    /\ InState({ "section" }) # {}
    /\ pdf_files = << >>
    /\ failed_conversions = << >>
    /\ progress_bar = << 0, 1 >>

\* C19: the free permits and the tasks inside the section always add up to
\* the width of the semaphore, the free permits staying between 0 and the
\* width; every permit is free once the batch is over; a permit is free
\* whenever a task of the run is about to acquire one, so that no task waits;
\* and while a task is still to be collected some step of the run is possible.
C19_PermitsBalanced ==
    /\ api_semaphore \in 0..SemaphoreWidth
    /\ api_semaphore + Cardinality(InState({ "section" })) = SemaphoreWidth
    /\ (BatchOver \/ (futures # << >> /\ AllCollected)) => api_semaphore = SemaphoreWidth
    /\ InState({ "running" }) # {} => api_semaphore > 0
    /\ (pc = "collect" /\ ~ AllCollected) => ENABLED Next

\* a failed render has given its permit back while every worker of the pool
\* is inside the section
C19_Witness ==
    /\ \E i \in InState({ "done" }) : ~ futures[i].success
    /\ Cardinality(InState({ "section" })) = MaxWorkers
    /\ api_semaphore = SemaphoreWidth - MaxWorkers

\* the file a task saves when its render succeeds
ArtifactOf(i) == filepath(futures[i].index)

\* C20: the tasks of a run have pairwise different files, none of them
\* merged.pdf or products.docx; the directory holds one file for each task
\* whose render succeeded; and no step saves a task's file, or the merged
\* file, over a file that is already there.
C20_ArtifactsNeverOverwritten ==
    /\ [](/\ \A i, j \in DOMAIN futures :
                i # j => ArtifactOf(i) # ArtifactOf(j)
          /\ \A i \in DOMAIN futures :
                ArtifactOf(i) \notin { merged_pdf, final_docx }
          /\ temp_dir.exists =>
                /\ temp_dir.files \ { merged_pdf } = { ArtifactOf(i) : i \in Successes }
                /\ Cardinality(temp_dir.files \ { merged_pdf }) = Cardinality(Successes))
    /\ [][ /\ \A i \in DOMAIN futures :
                (/\ futures[i].state = "section"
                 /\ i \in DOMAIN futures'
                 /\ futures'[i].state = "done"
                 /\ futures'[i].success) => ArtifactOf(i) \notin temp_dir.files
           /\ merge_calls' # merge_calls => merged_pdf \notin temp_dir.files
         ]_vars

\* two tasks are about to save their files at once, next to a file already
\* saved
C20_Witness ==
    /\ Cardinality(InState({ "section" })) >= 2
    /\ temp_dir.files # {}

====
